---- MODULE Spec2Model ----
(***************************************************************************)
(* Zeroth AI: the sandboxed execution and verify-repair pipeline.          *)
(*                                                                         *)
(*   - runAgent (the Repair Loop Controller, client side), one action per  *)
(*     segment of the async function between two awaits;                   *)
(*   - POST /api/execute (the Test Harness, server side): the operator     *)
(*     ExecuteHandler over the outcomes of runPython, and one request      *)
(*     followed through its loop over the vectors and its runPython calls; *)
(*   - runPython (the Sandbox Executor), one action per callback of the    *)
(*     promise executor: the 'exit' handler, the 'close' handler and the   *)
(*     hard timer, with the child process as the environment; the temp     *)
(*     files of calls that are in flight at once.                          *)
(*                                                                         *)
(* Texts are sequences of one-character strings, so that trim() is         *)
(* computed and not assumed.                                               *)
(***************************************************************************)
EXTENDS Integers, Sequences, FiniteSets, TLC

(***************************************************************************)
(* Bounds of the model.                                                    *)
(***************************************************************************)
\* the largest number of test vectors generateTestCases returns
MaxGenTests == 1
\* the seconds a call of runPython is followed for
MaxClock == 4
\* the milliseconds concurrent calls of runPython are followed for
MaxMs == 2
\* the largest line number a traceback names
MaxLine == 40

(***************************************************************************)
(* The state of one run of runAgent.                                       *)
(***************************************************************************)
VARIABLES
    problem, sampleInput, sampleOutput, language,   \* the form
    step, code, testResults, generatedTests,        \* the displayed state
    pc,                                             \* the await runAgent is at
    allTests, currentCode, iterations, allPassed,   \* locals of runAgent
    bestCode, maxPassedCount, bestTestResults, failed,
    errorMessage,                                   \* err.message in the catch
    executions, repairs, optimizations, passHist,   \* history
    lastRepair, sentTests, repairCall

ctlVars == <<problem, sampleInput, sampleOutput, language, step, code,
             testResults, generatedTests, pc, allTests, currentCode, iterations, allPassed,
             bestCode, maxPassedCount, bestTestResults, failed, errorMessage,
             executions, repairs, optimizations, passHist, lastRepair,
             sentTests, repairCall>>

formVars == <<problem, sampleInput, sampleOutput, language>>
loopVars == <<allTests, currentCode, iterations, allPassed, bestCode,
              maxPassedCount, bestTestResults, failed>>
histVars == <<executions, repairs, optimizations, passHist, lastRepair,
              sentTests, repairCall>>

(***************************************************************************)
(* The state of one call of runPython.                                     *)
(***************************************************************************)
VARIABLES
    call,            \* where the call is: "none", "pending", "returned", "crashed"
    tempFile,        \* whether the scratch file exists
    child,           \* the python3 process: "none", "running", "ended"
    exitCode,        \* its exit status, NullCode when a signal ended it
    cause,           \* what ended it (history)
    limitsInForce,   \* whether the setrlimit calls of the preamble took effect
    descendant,      \* a process the child started is alive and holds its pipes
    output, error,   \* the captured stdout and stderr
    exitEmitted, closeEmitted,   \* the 'exit' and 'close' events were delivered
    timer,           \* the hard timer: "unset", "pending", "cleared", "fired"
    killed,          \* py.kill('SIGKILL') was called
    clock,           \* seconds since the call
    promise,         \* the promise: NotSettled or an outcome
    settledBy,       \* the callback that settled it (history)
    settledAt,       \* the clock when it was settled (history)
    settleCalls      \* resolve/reject calls made so far (history)

pyVars == <<call, tempFile, child, exitCode, cause, limitsInForce, descendant,
            output, error, exitEmitted, closeEmitted, timer, killed, clock,
            promise, settledBy, settledAt, settleCalls>>

(***************************************************************************)
(* The state of one request to POST /api/execute.                          *)
(***************************************************************************)
VARIABLES
    handler,         \* where the handler is: "idle", "await", "responded"
    reqLanguage,     \* req.body.language
    reqTestCases,    \* req.body.testCases
    idx,             \* the position of the for..of loop in reqTestCases
    handlerResults,  \* the results array of the handler
    resSent,         \* what res sent: NoResponse or a status and a body
    runs             \* how each runPython call of the request ended (history)

hVars == <<handler, reqLanguage, reqTestCases, idx, handlerResults,
           resSent, runs>>

(***************************************************************************)
(* The scratch directory of the server and the runPython calls that are    *)
(* in flight at once.                                                      *)
(***************************************************************************)
VARIABLES
    nowMs,           \* Date.now()
    scratchDir,      \* the names of the temp files that exist
    runName,         \* the tempFile of each call
    runState         \* each call: "none", "running", "timed out", "closed"

dirVars == <<nowMs, scratchDir, runName, runState>>

vars == <<ctlVars, pyVars, hVars, dirVars>>

(***************************************************************************)
(* Texts.                                                                  *)
(***************************************************************************)
WhiteSpace == {" ", "\n"}

\* String.prototype.trim: the text without leading and trailing white space
RECURSIVE TrimStart(_)
TrimStart(s) ==
    IF s # <<>> /\ Head(s) \in WhiteSpace THEN TrimStart(Tail(s)) ELSE s

RECURSIVE TrimEnd(_)
TrimEnd(s) ==
    IF s # <<>> /\ s[Len(s)] \in WhiteSpace
    THEN TrimEnd(SubSeq(s, 1, Len(s) - 1))
    ELSE s

Trim(s) == TrimEnd(TrimStart(s))

\* a JavaScript value that is absent (undefined)
Undefined == <<"undefined">>

(***************************************************************************)
(* The outcome of one runPython call: the promise resolved with the        *)
(* captured stdout, or rejected with an Error whose message is value.      *)
(***************************************************************************)
Resolved(text) == [settled |-> "resolve", value |-> text]
Rejected(message) == [settled |-> "reject", value |-> message]

MsgMemory == <<"Memory Limit Exceeded or Process Killed">>
MsgCpu == <<"CPU Time Limit Exceeded">>
MsgHardTimeout == <<"Time Limit Exceeded (Hard Timeout)">>

(***************************************************************************)
(* runPython: the Sandbox Executor.                                        *)
(***************************************************************************)
\* the promise before resolve or reject was called
NotSettled == [settled |-> "pending", value |-> <<>>]

\* the code the 'close' event carries when a signal ended the child (null)
NullCode == -1
\* the statuses a child may exit with
ExitCodes == {0, 1, 2, 9, 24, 137, 152, 255}

\* the seconds after which the hard timer fires, and RLIMIT_CPU
HARD_TIMEOUT == 3
CPU_LIMIT == 2

MsgSpawn == <<"spawn failed">>
MsgWrite == <<"write failed">>
MsgMemoryError == <<"MemoryError", "\n">>

Digits == <<"0", "1", "2", "3", "4", "5", "6", "7", "8", "9">>
IsDigit(c) == \E d \in 1..10 : Digits[d] = c
DigitValue(c) == (CHOOSE d \in 1..10 : Digits[d] = c) - 1

\* the longest run of digits at the start of a text
RECURSIVE DigitRun(_)
DigitRun(s) ==
    IF s # <<>> /\ IsDigit(Head(s)) THEN <<Head(s)>> \o DigitRun(Tail(s)) ELSE <<>>

\* parseInt(p1, 10) of a run of digits
RECURSIVE ParseInt(_)
ParseInt(ds) ==
    IF ds = <<>> THEN 0
    ELSE ParseInt(SubSeq(ds, 1, Len(ds) - 1)) * 10 + DigitValue(ds[Len(ds)])

\* the decimal digits of a natural number
RECURSIVE ToDigits(_)
ToDigits(n) ==
    IF n < 10 THEN <<Digits[n + 1]>>
    ELSE ToDigits(n \div 10) \o <<Digits[(n % 10) + 1]>>

\* the lines of secureCode in front of the user's code: the empty line
\* after the opening quote and lines 105-130 of the template
PREAMBLE_LINES == 27

\* a remapping that takes the last line of the preamble for a user line
AdjustLineEarly(ds) ==
    IF ParseInt(ds) >= 27 THEN ToDigits(ParseInt(ds) - 26) ELSE ds

\* the line a line number of the temp file is reported as
AdjustLine(ds) ==
    IF ParseInt(ds) >= 28 THEN ToDigits(ParseInt(ds) - 27) ELSE ds

\* error.replace(/line (\d+)/g, ...): "line " is one piece of the text
RECURSIVE AdjustError(_)
AdjustError(s) ==
    IF s = <<>> THEN <<>>
    ELSE IF Head(s) = "line " /\ DigitRun(Tail(s)) # <<>>
    THEN <<"line ">> \o AdjustLine(DigitRun(Tail(s)))
            \o AdjustError(SubSeq(s, 2 + Len(DigitRun(Tail(s))), Len(s)))
    ELSE <<Head(s)>> \o AdjustError(Tail(s))

ExitedMessage(status) ==
    IF status = NullCode
    THEN <<"Process exited with code null">>
    ELSE <<"Process exited with code ">> \o ToDigits(status)

\* a classification that takes the kill status 9 for a CPU-limit status
ClassifyKillAsCpu(status, stdoutText, stderrText) ==
    IF status = 0 THEN Resolved(stdoutText)
    ELSE IF status = 137 THEN Rejected(MsgMemory)
    ELSE IF status = 152 \/ status = 24 \/ status = 9 THEN Rejected(MsgCpu)
    ELSE IF AdjustError(stderrText) # <<>>
         THEN Rejected(AdjustError(stderrText))
         ELSE Rejected(ExitedMessage(status))

\* what the 'close' handler settles the promise with
Classify(status, stdoutText, stderrText) ==
    IF status = 0 THEN Resolved(stdoutText)
    ELSE IF status = 137 \/ status = 9 THEN Rejected(MsgMemory)
    ELSE IF status = 152 \/ status = 24 THEN Rejected(MsgCpu)
    ELSE IF AdjustError(stderrText) # <<>>
         THEN Rejected(AdjustError(stderrText))
         ELSE Rejected(ExitedMessage(status))

\* callbacks that never call resolve or reject
SettleNever(current, outcome) == current

\* resolve and reject have no effect on a settled promise
Settle(current, outcome) ==
    IF current = NotSettled THEN outcome ELSE current

(***************************************************************************)
(* POST /api/execute: the Test Harness.                                    *)
(***************************************************************************)
\* a check of the language that lets every language through
AnyLanguage == {"python", "cpp", "java", "ruby"}

SupportedLanguages == {"python", "cpp", "java"}

\* a loop body without the mock branch: every language runs the candidate
TestResultNoMock(lang, testCase, py) ==
    IF py.settled = "resolve"
    THEN [input |-> testCase.input,
          expectedOutput |-> testCase.expectedOutput,
          actualOutput |-> py.value,
          error |-> Undefined,
          passed |-> Trim(py.value) = Trim(testCase.expectedOutput)]
    ELSE [input |-> testCase.input,
          expectedOutput |-> testCase.expectedOutput,
          actualOutput |-> Undefined,
          error |-> py.value,
          passed |-> FALSE]

\* a comparison of the outputs as they are, not trimmed
TestResultRaw(lang, testCase, py) ==
    IF lang = "python"
    THEN IF py.settled = "resolve"
         THEN [input |-> testCase.input,
               expectedOutput |-> testCase.expectedOutput,
               actualOutput |-> py.value,
               error |-> Undefined,
               passed |-> py.value = testCase.expectedOutput]
         ELSE [input |-> testCase.input,
               expectedOutput |-> testCase.expectedOutput,
               actualOutput |-> Undefined,
               error |-> py.value,
               passed |-> FALSE]
    ELSE [input |-> testCase.input,
          expectedOutput |-> testCase.expectedOutput,
          actualOutput |-> testCase.expectedOutput,
          error |-> Undefined,
          passed |-> TRUE]

\* the outcome pushed for one test vector; py is the outcome of the
\* runPython call that a python request makes for it
TestResult(lang, testCase, py) ==
    IF lang = "python"
    THEN IF py.settled = "resolve"
         THEN [input |-> testCase.input,
               expectedOutput |-> testCase.expectedOutput,
               actualOutput |-> py.value,
               error |-> Undefined,
               passed |-> Trim(py.value) = Trim(testCase.expectedOutput)]
         ELSE [input |-> testCase.input,
               expectedOutput |-> testCase.expectedOutput,
               actualOutput |-> Undefined,
               error |-> py.value,
               passed |-> FALSE]
    ELSE [input |-> testCase.input,
          expectedOutput |-> testCase.expectedOutput,
          actualOutput |-> testCase.expectedOutput,
          error |-> Undefined,
          passed |-> TRUE]

\* a handler that responds before the last vector has its outcome
ExecuteHandlerPartial(lang, testCases, pys) ==
    IF lang \notin SupportedLanguages
    THEN [status |-> 400, results |-> <<>>]
    ELSE [status |-> 200,
          results |-> [i \in 1..(Len(testCases) - 1) |->
                          TestResult(lang, testCases[i], pys[i])]]

\* the response of the handler; pys[i] is the runPython outcome of vector i
ExecuteHandler(lang, testCases, pys) ==
    IF lang \notin SupportedLanguages
    THEN [status |-> 400, results |-> <<>>]
    ELSE [status |-> 200,
          results |-> [i \in 1..Len(testCases) |->
                          TestResult(lang, testCases[i], pys[i])]]

\* nothing was sent on res yet
NoResponse == [status |-> 0, results |-> <<>>]

\* a try/catch that drops the vector whose runPython call was rejected
PushedUnlessRejected(list, lang, testCase, py) ==
    IF lang = "python" /\ py.settled = "reject"
    THEN list
    ELSE Append(list, TestResult(lang, testCase, py))

\* results.push of the loop body (lines 58, 60 and 65)
Pushed(list, lang, testCase, py) ==
    Append(list, TestResult(lang, testCase, py))

(***************************************************************************)
(* The collaborators of runAgent (services/ai).                            *)
(***************************************************************************)
\* what the model answers: nothing, white space, or a program
ResponseTexts == {<<>>, <<" ">>, <<"a">>, <<"\n", "b", "\n">>}

\* generateInitialCode, debugAndRepair and optimizeCode return the answer
\* with the reasoning block and the code fences taken out, trimmed
ExtractCode(text) == Trim(text)

\* the test vectors generateTestCases may return ([] when parsing fails)
GenPool == {[input |-> <<"a">>, expectedOutput |-> <<"a">>]}
GenTestLists == UNION {[1..n -> GenPool] : n \in 0..MaxGenTests}

\* what the user may have typed in the sample fields
SampleTexts == {<<" ">>, <<" ", "b">>}
Problems == {<<" ">>, <<"p">>}

\* the outcomes runPython may have for a candidate on a test vector: the
\* empty program prints nothing; program a prints the expected output
\* followed by a newline, or nothing; program b prints the expected output
\* or runs into the hard timeout
PyOutcomes(candidate, testCase) ==
    IF candidate = <<>> THEN {Resolved(<<>>)}
    ELSE IF candidate = <<"a">>
    THEN {Resolved(testCase.expectedOutput \o <<"\n">>), Resolved(<<>>)}
    ELSE {Resolved(testCase.expectedOutput), Rejected(MsgHardTimeout)}

(***************************************************************************)
(* runAgent: the Repair Loop Controller.                                   *)
(***************************************************************************)
MAX_ITERATIONS == 5

MsgEmptyRepair == "Self-repair generated empty code. Aborting."
MsgCollaborator == "collaborator failed"
NoMessage == ""

\* the arguments of the latest call of debugAndRepair (history): the code
\* and the failed outcomes passed, and the iteration that made the call
NoCall == [iter |-> 0, code |-> <<>>, failedTests |-> <<>>]

\* a results array, with the execution that produced it (iter, forCode:
\* history, not read by the program)
NoResults == [iter |-> 0, forCode |-> <<>>, list |-> <<>>]

IsPassed(r) == r.passed
IsFailed(r) == ~r.passed
PassedCount(list) == Len(SelectSeq(list, IsPassed))
FailedOf(list) == SelectSeq(list, IsFailed)

CtlInit ==
    /\ problem \in Problems
    /\ sampleInput \in SampleTexts
    /\ sampleOutput \in SampleTexts
    /\ language \in SupportedLanguages
    /\ step = "idle"
    /\ code = <<>>
    /\ testResults = NoResults
    /\ generatedTests = <<>>
    /\ pc = "idle"
    /\ allTests = <<>>
    /\ currentCode = <<>>
    /\ iterations = 0
    /\ allPassed = FALSE
    /\ bestCode = <<>>
    /\ maxPassedCount = -1
    /\ bestTestResults = NoResults
    /\ failed = <<>>
    /\ errorMessage = NoMessage
    /\ executions = 0
    /\ repairs = 0
    /\ optimizations = 0
    /\ passHist = <<>>
    /\ lastRepair = Undefined
    /\ sentTests = <<>>
    /\ repairCall = NoCall

\* runAgent up to the first await
RunAgent ==
    /\ pc = "idle"
    /\ Trim(problem) # <<>>
    /\ step' = "analyzing"
    /\ pc' = "analyze"
    /\ UNCHANGED <<formVars, code, testResults, generatedTests, loopVars,
                   errorMessage, histVars>>
    /\ UNCHANGED <<pyVars, hVars, dirVars>>

\* analyzeProblem returned
AnalyzeReturns ==
    /\ pc = "analyze"
    /\ step' = "coding"
    /\ pc' = "generate"
    /\ UNCHANGED <<formVars, code, testResults, generatedTests, loopVars,
                   errorMessage, histVars>>
    /\ UNCHANGED <<pyVars, hVars, dirVars>>

\* generateInitialCode returned
GenerateReturns ==
    /\ pc = "generate"
    /\ \E text \in ResponseTexts :
          /\ currentCode' = ExtractCode(text)
          /\ code' = ExtractCode(text)
    /\ step' = "testing"
    /\ pc' = "gentests"
    /\ UNCHANGED <<formVars, testResults, generatedTests, allTests, iterations,
                   allPassed,
                   bestCode, maxPassedCount, bestTestResults, failed,
                   errorMessage, histVars>>
    /\ UNCHANGED <<pyVars, hVars, dirVars>>

\* a user vector built when either sample field is non-blank
InputPublicTestsEither ==
    IF Trim(sampleInput) # <<>> \/ Trim(sampleOutput) # <<>>
    THEN <<[input |-> Trim(sampleInput), expectedOutput |-> Trim(sampleOutput)]>>
    ELSE <<>>

\* the user-supplied vector, when both sample fields are non-blank
InputPublicTests ==
    IF Trim(sampleInput) # <<>> /\ Trim(sampleOutput) # <<>>
    THEN <<[input |-> Trim(sampleInput), expectedOutput |-> Trim(sampleOutput)]>>
    ELSE <<>>

\* a loop that goes on after an iteration whose outcomes all passed
LoopContinuesAnyway(passedAll, n) == n < MAX_ITERATIONS

\* a loop that gives up one iteration early
LoopContinuesShort(passedAll, n) == ~passedAll /\ n < MAX_ITERATIONS - 1

\* a loop that admits one iteration too many
LoopContinuesInclusive(passedAll, n) == ~passedAll /\ n <= MAX_ITERATIONS

\* the condition of the while loop
LoopContinues(passedAll, n) == ~passedAll /\ n < MAX_ITERATIONS

\* generateTestCases returned: the locals of the loop are set and the loop
\* is entered, up to the fetch of the first iteration
GenTestsReturns ==
    /\ pc = "gentests"
    /\ \E newGeneratedTests \in GenTestLists :
          /\ generatedTests' = newGeneratedTests
          /\ allTests' = InputPublicTests \o newGeneratedTests
    /\ allPassed' = FALSE
    /\ bestCode' = currentCode
    /\ maxPassedCount' = -1
    /\ bestTestResults' = NoResults
    /\ IF LoopContinues(FALSE, 0)
       THEN /\ iterations' = 1
            /\ executions' = executions + 1
            /\ sentTests' = Append(sentTests, allTests')
            /\ pc' = "fetch"
            /\ UNCHANGED <<step, code, testResults>>
       ELSE /\ iterations' = 0
            /\ executions' = executions
            /\ sentTests' = sentTests
            /\ code' = currentCode
            /\ testResults' = NoResults
            /\ step' = "optimizing"
            /\ pc' = "optimize"
    /\ optimizations' = IF LoopContinues(FALSE, 0) THEN 0 ELSE 1
    /\ UNCHANGED <<formVars, currentCode, failed, errorMessage, repairs, passHist,
                   lastRepair, repairCall>>
    /\ UNCHANGED <<pyVars, hVars, dirVars>>

\* a tracker that keeps the first iteration whatever comes later
BestAfterFirstOnly(passedCount, results) ==
    IF maxPassedCount = -1
    THEN [count |-> passedCount, code |-> currentCode, results |-> results]
    ELSE [count |-> maxPassedCount, code |-> bestCode, results |-> bestTestResults]

\* a tracker that takes an iteration only when an outcome passed
BestAfterFromZero(passedCount, results) ==
    IF passedCount > maxPassedCount /\ passedCount > 0
    THEN [count |-> passedCount, code |-> currentCode, results |-> results]
    ELSE [count |-> maxPassedCount, code |-> bestCode, results |-> bestTestResults]

\* a tracker that stores the latest iteration whatever it scored
BestAfterLatest(passedCount, results) ==
    [count |-> passedCount, code |-> currentCode, results |-> results]

\* a tracker that replaces the stored state on a tie
BestAfterOnTie(passedCount, results) ==
    IF passedCount >= maxPassedCount
    THEN [count |-> passedCount, code |-> currentCode, results |-> results]
    ELSE [count |-> maxPassedCount, code |-> bestCode, results |-> bestTestResults]

\* the best-candidate update of one iteration: the stored state after a
\* results array with passedCount passed outcomes was received
BestAfter(passedCount, results) ==
    IF passedCount > maxPassedCount
    THEN [count |-> passedCount, code |-> currentCode, results |-> results]
    ELSE [count |-> maxPassedCount, code |-> bestCode, results |-> bestTestResults]

\* a repair that is also called after the last iteration
RepairAllowedInclusive(n) == n <= MAX_ITERATIONS

\* whether debugAndRepair is called after an iteration with failures
RepairAllowed(n) == n < MAX_ITERATIONS

\* a controller that reports the last executed candidate
FinalRecordLast(passedAll, best, lastCode, lastResults) ==
    [code |-> lastCode, shown |-> code, results |-> lastResults]

\* what is shown when the loop has ended: the best candidate when not all
\* passed, the last one otherwise
FinalRecord(passedAll, best, lastCode, lastResults) ==
    IF ~passedAll
    THEN [code |-> best.code, shown |-> best.code, results |-> best.results]
    ELSE [code |-> lastCode, shown |-> code, results |-> lastResults]

\* the response of /api/execute arrived: the rest of the loop body; then
\* the repair call, or the loop condition and what follows it
ExecuteResponds ==
    /\ pc = "fetch"
    /\ \E pys \in [1..Len(allTests) ->
                     UNION {PyOutcomes(currentCode, allTests[i]) :
                                i \in 1..Len(allTests)}] :
          /\ \A i \in 1..Len(allTests) :
                pys[i] \in PyOutcomes(currentCode, allTests[i])
          /\ LET response == ExecuteHandler(language, allTests, pys)
                 results == [iter |-> iterations, forCode |-> currentCode,
                             list |-> response.results]
                 passedCount == PassedCount(results.list)
                 best == BestAfter(passedCount, results)
                 failedNow == FailedOf(results.list)
                 repairing == failedNow # <<>> /\ RepairAllowed(iterations)
                 again == ~repairing /\ LoopContinues(failedNow = <<>>, iterations)
                 final == FinalRecord(failedNow = <<>>, best, currentCode, results)
             IN  /\ maxPassedCount' = best.count
                 /\ bestCode' = best.code
                 /\ bestTestResults' = best.results
                 /\ passHist' = Append(passHist, passedCount)
                 /\ allPassed' = (failedNow = <<>>)
                 /\ failed' = failedNow
                 /\ repairs' = IF repairing THEN repairs + 1 ELSE repairs
                 /\ repairCall' = IF repairing
                                  THEN [iter |-> iterations, code |-> currentCode,
                                        failedTests |-> failedNow]
                                  ELSE repairCall
                 /\ IF repairing
                    THEN /\ step' = "debugging"
                         /\ pc' = "repair"
                         /\ testResults' = results
                         /\ UNCHANGED <<currentCode, code, iterations,
                                        executions, sentTests, optimizations>>
                    ELSE IF again
                    THEN /\ step' = "debugging"
                         /\ pc' = "fetch"
                         /\ testResults' = results
                         /\ iterations' = iterations + 1
                         /\ executions' = executions + 1
                         /\ sentTests' = Append(sentTests, allTests)
                         /\ UNCHANGED <<currentCode, code, optimizations>>
                    ELSE /\ step' = "optimizing"
                         /\ pc' = "optimize"
                         /\ currentCode' = final.code
                         /\ code' = final.shown
                         /\ testResults' = final.results
                         /\ optimizations' = optimizations + 1
                         /\ UNCHANGED <<iterations, executions, sentTests>>
    /\ UNCHANGED <<formVars, generatedTests, allTests, errorMessage, lastRepair>>
    /\ UNCHANGED <<pyVars, hVars, dirVars>>

\* a controller that takes every answer for empty
AlwaysEmptyCode(data) == TRUE

\* a controller that accepts any answer
NeverEmptyCode(data) == FALSE

\* the test of the answer of debugAndRepair
IsEmptyCode(data) == data = <<>> \/ Trim(data) = <<>>

\* debugAndRepair returned: the empty check, and the next iteration up to
\* its fetch
RepairReturns ==
    /\ pc = "repair"
    /\ \E text \in ResponseTexts :
          LET data == ExtractCode(text)
          IN  /\ lastRepair' = data
              /\ IF IsEmptyCode(data)
                 THEN /\ step' = "failed"
                      /\ errorMessage' = MsgEmptyRepair
                      /\ pc' = "done"
                      /\ UNCHANGED <<code, currentCode, testResults, iterations,
                                     executions, sentTests, optimizations>>
                 ELSE /\ UNCHANGED errorMessage
                      /\ IF LoopContinues(allPassed, iterations)
                         THEN /\ currentCode' = data
                              /\ code' = data
                              /\ iterations' = iterations + 1
                              /\ executions' = executions + 1
                              /\ sentTests' = Append(sentTests, allTests)
                              /\ pc' = "fetch"
                              /\ UNCHANGED <<step, testResults, optimizations>>
                         ELSE /\ currentCode' = bestCode
                              /\ code' = bestCode
                              /\ testResults' = bestTestResults
                              /\ step' = "optimizing"
                              /\ pc' = "optimize"
                              /\ optimizations' = optimizations + 1
                              /\ UNCHANGED <<iterations, executions, sentTests>>
    /\ UNCHANGED <<formVars, generatedTests, allTests, allPassed, bestCode, maxPassedCount,
                   bestTestResults, failed, repairs, passHist, repairCall>>
    /\ UNCHANGED <<pyVars, hVars, dirVars>>

\* optimizeCode returned
OptimizeReturns ==
    /\ pc = "optimize"
    /\ \E text \in ResponseTexts : code' = ExtractCode(text)
    /\ step' = "completed"
    /\ pc' = "done"
    /\ UNCHANGED <<formVars, testResults, generatedTests, loopVars,
                   errorMessage, histVars>>
    /\ UNCHANGED <<pyVars, hVars, dirVars>>

\* an awaited call threw (a collaborator, the fetch, or response.json()):
\* the catch of runAgent
AwaitThrows ==
    /\ pc \in {"analyze", "generate", "gentests", "fetch", "repair", "optimize"}
    /\ step' = "failed"
    /\ errorMessage' = MsgCollaborator
    /\ pc' = "done"
    /\ UNCHANGED <<formVars, code, testResults, generatedTests, loopVars,
                   histVars>>
    /\ UNCHANGED <<pyVars, hVars, dirVars>>

CtlNext ==
    \/ RunAgent
    \/ AnalyzeReturns
    \/ GenerateReturns
    \/ GenTestsReturns
    \/ ExecuteResponds
    \/ RepairReturns
    \/ OptimizeReturns
    \/ AwaitThrows

(***************************************************************************)
(* The specification of a run of runAgent.                                 *)
(***************************************************************************)
\* no request to POST /api/execute is looked at
HandlerParked ==
    /\ handler = "idle"
    /\ reqLanguage = "python"
    /\ reqTestCases = <<>>
    /\ idx = 0
    /\ handlerResults = <<>>
    /\ resSent = NoResponse
    /\ runs = <<>>

\* the calls of runPython that may be in flight at once
Runs == {1, 2}
NoName == [ms |-> -1, suffix |-> <<>>]

\* no concurrent calls are looked at
DirParked ==
    /\ nowMs = 0
    /\ scratchDir = {}
    /\ runName = [e \in Runs |-> NoName]
    /\ runState = [e \in Runs |-> "none"]

\* no call of runPython is looked at
PyParked ==
    /\ call = "none"
    /\ tempFile = "absent"
    /\ child = "none"
    /\ exitCode = NullCode
    /\ cause = "none"
    /\ limitsInForce = TRUE
    /\ descendant = FALSE
    /\ output = <<>>
    /\ error = <<>>
    /\ exitEmitted = FALSE
    /\ closeEmitted = FALSE
    /\ timer = "unset"
    /\ killed = FALSE
    /\ clock = 0
    /\ promise = NotSettled
    /\ settledBy = "none"
    /\ settledAt = 0
    /\ settleCalls = 0

Init == CtlInit /\ PyParked /\ HandlerParked /\ DirParked

Next == CtlNext

Spec == Init /\ [][Next]_vars

(***************************************************************************)
(* One call of runPython, its child process and its callbacks.             *)
(***************************************************************************)
\* what a child may have written when it ends
StdoutTexts == {<<>>, <<"a", "\n">>}
StderrTexts == {<<>>, <<"line ", "3", "0", "\n">>}

PyInit ==
    /\ call = "none"
    /\ tempFile = "absent"
    /\ child = "none"
    /\ exitCode = NullCode
    /\ cause = "none"
    /\ limitsInForce \in BOOLEAN
    /\ descendant = FALSE
    /\ output = <<>>
    /\ error = <<>>
    /\ exitEmitted = FALSE
    /\ closeEmitted = FALSE
    /\ timer = "unset"
    /\ killed = FALSE
    /\ clock = 0
    /\ promise = NotSettled
    /\ settledBy = "none"
    /\ settledAt = 0
    /\ settleCalls = 0

\* the executor of the promise (lines 103-188), which runs to its end or
\* throws: writeFileSync may throw, spawn may throw, spawn may return a
\* child that could not be started (its 'error' event follows)
RunPython ==
    /\ call = "none"
    /\ call' = "made"
    /\ \E fault \in {"none", "write", "spawn throws", "spawn fails"} :
          /\ tempFile' = IF fault = "write" THEN "absent" ELSE "exists"
          /\ child' = CASE fault = "none" -> "running"
                        [] fault = "spawn fails" -> "failed"
                        [] OTHER -> "none"
          /\ timer' = IF fault \in {"none", "spawn fails"} THEN "pending" ELSE "unset"
          /\ promise' = CASE fault = "write" -> Rejected(MsgWrite)
                          [] fault = "spawn throws" -> Rejected(MsgSpawn)
                          [] OTHER -> NotSettled
          /\ settledBy' = IF fault \in {"write", "spawn throws"} THEN "executor" ELSE "none"
    /\ UNCHANGED <<exitCode, cause, limitsInForce, descendant, output, error,
                   exitEmitted, closeEmitted, killed, clock, settledAt,
                   settleCalls>>
    /\ UNCHANGED <<ctlVars, hVars, dirVars>>

\* the child that could not be started emits 'error'; py has no 'error'
\* listener, so the event is thrown and ends the server process
SpawnErrorEvent ==
    /\ call = "made"
    /\ child = "failed"
    /\ call' = "crashed"
    /\ UNCHANGED <<tempFile, child, exitCode, cause, limitsInForce, descendant,
                   output, error, exitEmitted, closeEmitted, timer, killed,
                   clock, promise, settledBy, settledAt, settleCalls>>
    /\ UNCHANGED <<ctlVars, hVars, dirVars>>

\* the candidate ends by itself with some exit status
ChildExits ==
    /\ child = "running"
    /\ child' = "ended"
    /\ cause' = "exit"
    /\ \E status \in ExitCodes : exitCode' = status
    /\ \E text \in StdoutTexts : output' = text
    /\ \E text \in StderrTexts : error' = text
    /\ UNCHANGED <<call, tempFile, limitsInForce, descendant, exitEmitted,
                   closeEmitted, timer, killed, clock, promise, settledBy,
                   settledAt, settleCalls>>
    /\ UNCHANGED <<ctlVars, hVars, dirVars>>

\* the candidate asks for more than RLIMIT_AS allows: python raises
\* MemoryError and exits with status 1, or a signal ends the process
ChildOutOfMemory ==
    /\ child = "running"
    /\ limitsInForce
    /\ child' = "ended"
    /\ cause' = "memory"
    /\ \E bySignal \in BOOLEAN :
          /\ exitCode' = IF bySignal THEN NullCode ELSE 1
          /\ error' = IF bySignal THEN <<>> ELSE MsgMemoryError
    /\ UNCHANGED <<call, tempFile, limitsInForce, descendant, output,
                   exitEmitted, closeEmitted, timer, killed, clock, promise,
                   settledBy, settledAt, settleCalls>>
    /\ UNCHANGED <<ctlVars, hVars, dirVars>>

\* the candidate has used RLIMIT_CPU seconds of CPU time: SIGXCPU ends it
ChildOutOfCpu ==
    /\ child = "running"
    /\ limitsInForce
    /\ clock >= CPU_LIMIT
    /\ child' = "ended"
    /\ cause' = "cpu"
    /\ exitCode' = NullCode
    /\ UNCHANGED <<call, tempFile, limitsInForce, descendant, output, error,
                   exitEmitted, closeEmitted, timer, killed, clock, promise,
                   settledBy, settledAt, settleCalls>>
    /\ UNCHANGED <<ctlVars, hVars, dirVars>>

\* with RLIMIT_NPROC not in force the candidate starts a process of its
\* own, which inherits the pipes of the child
ChildForks ==
    /\ child = "running"
    /\ ~limitsInForce
    /\ ~descendant
    /\ descendant' = TRUE
    /\ UNCHANGED <<call, tempFile, child, exitCode, cause, limitsInForce,
                   output, error, exitEmitted, closeEmitted, timer, killed,
                   clock, promise, settledBy, settledAt, settleCalls>>
    /\ UNCHANGED <<ctlVars, hVars, dirVars>>

\* that process ends
DescendantEnds ==
    /\ descendant
    /\ descendant' = FALSE
    /\ UNCHANGED <<call, tempFile, child, exitCode, cause, limitsInForce,
                   output, error, exitEmitted, closeEmitted, timer, killed,
                   clock, promise, settledBy, settledAt, settleCalls>>
    /\ UNCHANGED <<ctlVars, hVars, dirVars>>

\* an event the event loop is about to deliver
EventDue ==
    \/ timer = "pending" /\ clock >= HARD_TIMEOUT
    \/ child = "failed"
    \/ child = "ended" /\ ~exitEmitted
    \/ exitEmitted /\ ~closeEmitted /\ ~descendant

\* a second passes; due events are delivered first
Tick ==
    /\ call = "made"
    /\ ~EventDue
    /\ clock < MaxClock
    /\ clock' = clock + 1
    /\ UNCHANGED <<call, tempFile, child, exitCode, cause, limitsInForce,
                   descendant, output, error, exitEmitted, closeEmitted, timer,
                   killed, promise, settledBy, settledAt, settleCalls>>
    /\ UNCHANGED <<ctlVars, hVars, dirVars>>

\* an 'exit' handler that leaves the timer running
ExitEventKeepsTimer ==
    /\ call = "made"
    /\ child = "ended"
    /\ ~exitEmitted
    /\ exitEmitted' = TRUE
    /\ UNCHANGED <<call, tempFile, child, exitCode, cause, limitsInForce,
                   descendant, output, error, closeEmitted, timer, killed,
                   clock, promise, settledBy, settledAt, settleCalls>>
    /\ UNCHANGED <<ctlVars, hVars, dirVars>>

\* py.on("exit"): clearTimeout
ExitEvent ==
    /\ call = "made"
    /\ child = "ended"
    /\ ~exitEmitted
    /\ exitEmitted' = TRUE
    /\ timer' = IF timer = "pending" THEN "cleared" ELSE timer
    /\ UNCHANGED <<call, tempFile, child, exitCode, cause, limitsInForce,
                   descendant, output, error, closeEmitted, killed, clock,
                   promise, settledBy, settledAt, settleCalls>>
    /\ UNCHANGED <<ctlVars, hVars, dirVars>>

\* py.on("close"), delivered once the child has ended and its pipes are
\* closed: remove the file, classify, settle
CloseEvent ==
    /\ call = "made"
    /\ exitEmitted
    /\ ~closeEmitted
    /\ ~descendant
    /\ closeEmitted' = TRUE
    /\ tempFile' = "absent"
    /\ promise' = Settle(promise, Classify(exitCode, output, error))
    /\ settleCalls' = settleCalls + 1
    /\ settledBy' = IF promise = NotSettled THEN "close" ELSE settledBy
    /\ settledAt' = IF promise = NotSettled THEN clock ELSE settledAt
    /\ UNCHANGED <<call, child, exitCode, cause, limitsInForce, descendant,
                   output, error, exitEmitted, timer, killed, clock>>
    /\ UNCHANGED <<ctlVars, hVars, dirVars>>

\* the callback of setTimeout: kill the child, remove the file, reject
TimerFires ==
    /\ call = "made"
    /\ timer = "pending"
    /\ clock >= HARD_TIMEOUT
    /\ timer' = "fired"
    /\ killed' = TRUE
    /\ IF child = "running"
       THEN child' = "ended" /\ exitCode' = NullCode /\ cause' = "hard kill"
       ELSE UNCHANGED <<child, exitCode, cause>>
    /\ tempFile' = "absent"
    /\ promise' = Settle(promise, Rejected(MsgHardTimeout))
    /\ settleCalls' = settleCalls + 1
    /\ settledBy' = IF promise = NotSettled THEN "timer" ELSE settledBy
    /\ settledAt' = IF promise = NotSettled THEN clock ELSE settledAt
    /\ UNCHANGED <<call, limitsInForce, descendant, output, error,
                   exitEmitted, closeEmitted, clock>>
    /\ UNCHANGED <<ctlVars, hVars, dirVars>>

PyNext ==
    \/ RunPython
    \/ SpawnErrorEvent
    \/ ChildExits
    \/ ChildOutOfMemory
    \/ ChildOutOfCpu
    \/ ChildForks
    \/ DescendantEnds
    \/ Tick
    \/ ExitEvent
    \/ CloseEvent
    \/ TimerFires

\* no run of runAgent is looked at
CtlParked ==
    /\ CtlInit
    /\ problem = <<" ">>
    /\ sampleInput = <<" ">>
    /\ sampleOutput = <<" ">>
    /\ language = "python"

InitPy == CtlParked /\ PyInit /\ HandlerParked /\ DirParked

SpecPy == InitPy /\ [][PyNext]_vars

(***************************************************************************)
(* One request to POST /api/execute (lines 42-75): the handler, and the    *)
(* runPython call it awaits for each test vector of a python request.      *)
(***************************************************************************)
\* what a client may send
RequestLanguages == SupportedLanguages \cup {"ruby"}
VectorA == [input |-> <<"a">>, expectedOutput |-> <<"a">>]
VectorB == [input |-> <<"b">>, expectedOutput |-> <<" ">>]
RequestTestCases == {<<>>, <<VectorA>>, <<VectorA, VectorB>>, <<VectorB, VectorA>>}

\* the next call of runPython starts from nothing; the events of the call
\* before it that are still to come act on the closure of that call only
FreshCall ==
    /\ call' = "none"
    /\ tempFile' = "absent"
    /\ child' = "none"
    /\ exitCode' = NullCode
    /\ cause' = "none"
    /\ descendant' = FALSE
    /\ output' = <<>>
    /\ error' = <<>>
    /\ exitEmitted' = FALSE
    /\ closeEmitted' = FALSE
    /\ timer' = "unset"
    /\ killed' = FALSE
    /\ clock' = 0
    /\ promise' = NotSettled
    /\ settledBy' = "none"
    /\ settledAt' = 0
    /\ settleCalls' = 0
    /\ UNCHANGED limitsInForce

\* lines 42-54, and for a request that awaits nothing lines 62-74 as well
ReceiveRequest ==
    /\ handler = "idle"
    /\ \E lang \in RequestLanguages, tests \in RequestTestCases :
          /\ reqLanguage' = lang
          /\ reqTestCases' = tests
          /\ IF lang \in SupportedLanguages /\ lang = "python" /\ tests # <<>>
             THEN /\ handler' = "await"
                  /\ idx' = 1
                  /\ handlerResults' = <<>>
                  /\ resSent' = NoResponse
             ELSE /\ handler' = "responded"
                  /\ idx' = Len(tests) + 1
                  /\ resSent' = ExecuteHandler(lang, tests,
                                     [i \in 1..Len(tests) |-> NotSettled])
                  /\ handlerResults' = resSent'.results
    /\ UNCHANGED runs
    /\ UNCHANGED <<ctlVars, pyVars, dirVars>>

\* the handler awaits runPython: the call goes on
RunPythonProceeds ==
    /\ handler = "await"
    /\ PyNext

\* the awaited promise is settled: lines 56-61, then the next vector or
\* res.json (line 74)
VectorSettles ==
    /\ handler = "await"
    /\ call = "made"
    /\ promise # NotSettled
    /\ handlerResults' = Pushed(handlerResults, reqLanguage, reqTestCases[idx], promise)
    /\ runs' = Append(runs, [by |-> settledBy,
                             status |-> IF settledBy = "close" THEN exitCode
                                        ELSE NullCode])
    /\ idx' = idx + 1
    /\ IF idx < Len(reqTestCases)
       THEN /\ FreshCall
            /\ UNCHANGED <<handler, resSent>>
       ELSE /\ handler' = "responded"
            /\ resSent' = [status |-> 200, results |-> handlerResults']
            /\ UNCHANGED pyVars
    /\ UNCHANGED <<reqLanguage, reqTestCases>>
    /\ UNCHANGED <<ctlVars, dirVars>>

ExecNext ==
    \/ ReceiveRequest
    \/ RunPythonProceeds
    \/ VectorSettles

InitExec == CtlParked /\ PyInit /\ HandlerParked /\ DirParked

SpecExec == InitExec /\ [][ExecNext]_vars

(***************************************************************************)
(* The 'close' handler on the traceback of a runtime error.                *)
(***************************************************************************)
\* a frame of a traceback that names line n of file 99, and a traceback of
\* one frame or of two
Frame(n) ==
    <<"File ", "9", "9", ", ">> \o <<"line ">> \o ToDigits(n) \o <<", in f", "\n">>
Tracebacks ==
    {Frame(n) : n \in 0..MaxLine}
        \cup {Frame(n) \o Frame(m) : n \in {2, 30}, m \in 0..MaxLine}

\* the child has ended with status 1 and a traceback on stderr
InitRemap ==
    /\ CtlParked
    /\ HandlerParked
    /\ DirParked
    /\ call = "made"
    /\ tempFile = "exists"
    /\ child = "ended"
    /\ exitCode = 1
    /\ cause = "exit"
    /\ limitsInForce \in BOOLEAN
    /\ descendant = FALSE
    /\ output = <<>>
    /\ error \in Tracebacks
    /\ exitEmitted = FALSE
    /\ closeEmitted = FALSE
    /\ timer = "pending"
    /\ killed = FALSE
    /\ clock = 0
    /\ promise = NotSettled
    /\ settledBy = "none"
    /\ settledAt = 0
    /\ settleCalls = 0

RemapNext ==
    \/ ExitEvent
    \/ CloseEvent

SpecRemap == InitRemap /\ [][RemapNext]_vars

(***************************************************************************)
(* Calls of runPython in flight at once (concurrent requests): the names   *)
(* of their temp files and the files in the directory of the server.       *)
(***************************************************************************)
\* what Math.random().toString(36).substring(7) may give: nothing, when the
\* expansion of the number has no eighth character, or some characters
RandomSuffixes == {<<>>, <<"k">>}

\* lines 134-137: the name is made of the time and a random suffix, the
\* file is written (created or overwritten), the child is spawned
StartRun(e) ==
    /\ runState[e] = "none"
    /\ \E suffix \in RandomSuffixes :
          LET name == [ms |-> nowMs, suffix |-> suffix]
          IN  /\ runName' = [runName EXCEPT ![e] = name]
              /\ scratchDir' = scratchDir \cup {name}
    /\ runState' = [runState EXCEPT ![e] = "running"]
    /\ UNCHANGED nowMs
    /\ UNCHANGED <<ctlVars, pyVars, hVars>>

\* lines 152-153: the 'close' handler removes the file if it exists
CloseRun(e) ==
    /\ runState[e] \in {"running", "timed out"}
    /\ scratchDir' = scratchDir \ {runName[e]}
    /\ runState' = [runState EXCEPT ![e] = "closed"]
    /\ UNCHANGED <<nowMs, runName>>
    /\ UNCHANGED <<ctlVars, pyVars, hVars>>

\* lines 182-186: the hard timer, later than the call, removes the file if
\* it exists; the 'close' event of the killed child is still to come
TimeoutRun(e) ==
    /\ runState[e] = "running"
    /\ nowMs > runName[e].ms
    /\ scratchDir' = scratchDir \ {runName[e]}
    /\ runState' = [runState EXCEPT ![e] = "timed out"]
    /\ UNCHANGED <<nowMs, runName>>
    /\ UNCHANGED <<ctlVars, pyVars, hVars>>

\* a millisecond passes
MsPasses ==
    /\ nowMs < MaxMs
    /\ nowMs' = nowMs + 1
    /\ UNCHANGED <<scratchDir, runName, runState>>
    /\ UNCHANGED <<ctlVars, pyVars, hVars>>

DirNext ==
    \/ \E e \in Runs : StartRun(e)
    \/ \E e \in Runs : CloseRun(e)
    \/ \E e \in Runs : TimeoutRun(e)
    \/ MsPasses

InitDir == CtlParked /\ PyParked /\ HandlerParked /\ DirParked

SpecDir == InitDir /\ [][DirNext]_vars

(***************************************************************************)
(* The client and the server side by side: a run of runAgent whose         *)
(* requests are answered by ExecuteHandler, or one request to the server   *)
(* followed through its runPython calls.                                   *)
(***************************************************************************)
\* no request reaches the server
NoRequest ==
    /\ handler = "none"
    /\ reqLanguage = "python"
    /\ reqTestCases = <<>>
    /\ idx = 0
    /\ handlerResults = <<>>
    /\ resSent = NoResponse
    /\ runs = <<>>

InitBoth ==
    \/ CtlInit /\ PyParked /\ NoRequest /\ DirParked
    \/ CtlParked /\ PyInit /\ HandlerParked /\ DirParked

NextBoth ==
    \/ CtlNext
    \/ ExecNext

SpecBoth == InitBoth /\ [][NextBoth]_vars

\* every awaited call of runAgent returns (or throws); the executor of
\* runPython runs when the handler calls it, and the handler goes on when
\* the promise it awaits is settled
FairBoth ==
    /\ SpecBoth
    /\ WF_vars(AnalyzeReturns)
    /\ WF_vars(GenerateReturns)
    /\ WF_vars(GenTestsReturns)
    /\ WF_vars(ExecuteResponds)
    /\ WF_vars(RepairReturns)
    /\ WF_vars(OptimizeReturns)
    /\ WF_vars(handler = "await" /\ RunPython)
    /\ WF_vars(VectorSettles)

(***************************************************************************)
(* Properties of runAgent, checked under Spec.                             *)
(***************************************************************************)
\* the largest pass count of a non-empty history, and the first iteration
\* that reached it
MaxOf(h) == CHOOSE m \in {h[i] : i \in 1..Len(h)} : \A j \in 1..Len(h) : h[j] <= m
EarliestMax(h) ==
    CHOOSE i \in 1..Len(h) : h[i] = MaxOf(h) /\ \A j \in 1..(i - 1) : h[j] < h[i]

\* C1: in a run the test-vector set is sent to /api/execute at most
\* MAX_ITERATIONS times, and at most MAX_ITERATIONS iteration records (one
\* per answered request) are produced.
C1_AtMostMaxIterations ==
    /\ executions <= MAX_ITERATIONS
    /\ Len(passHist) <= executions

\* a run that used the whole budget: five executions, the last one failing
C1_Witness ==
    executions = MAX_ITERATIONS /\ Len(passHist) = MAX_ITERATIONS /\ ~allPassed

\* C2: after any sequence of iteration records the best-candidate state is
\* that of the earliest iteration whose pass count is the largest seen:
\* bestTestResults are the results of that iteration, bestCode the candidate
\* they were obtained from, maxPassedCount its pass count.
C2_BestIsEarliestMax ==
    passHist # <<>> =>
        LET i == EarliestMax(passHist)
        IN  /\ bestTestResults.iter = i
            /\ bestCode = bestTestResults.forCode
            /\ maxPassedCount = passHist[i]
            /\ PassedCount(bestTestResults.list) = passHist[i]

\* five records with a tie at the top between iterations 3 and 4, lower
\* counts before and after (the shape of [3, 1, 4, 4, 2]): iteration 3 wins
C2_Witness ==
    /\ Len(passHist) = 5
    /\ passHist[3] = MaxOf(passHist)
    /\ passHist[4] = passHist[3]
    /\ passHist[1] < passHist[3]
    /\ passHist[2] < passHist[3]
    /\ passHist[5] < passHist[3]
    /\ bestTestResults.iter = 3

\* C3: when the loop has ended with the budget used up and failures left,
\* the candidate and the results carried on are the tracker's record: the
\* current candidate is bestCode, the displayed results are bestTestResults,
\* and until the optimizer answers the displayed code is bestCode.
C3_FallbackIsBest ==
    (Len(passHist) = MAX_ITERATIONS /\ ~allPassed) =>
        /\ pc \in {"optimize", "done"}
        /\ currentCode = bestCode
        /\ testResults = bestTestResults
        /\ testResults.iter = EarliestMax(passHist)
        /\ pc = "optimize" => code = bestCode

\* iteration 1 scored best and the last executed candidate is another one
C3_Witness ==
    /\ Len(passHist) = MAX_ITERATIONS
    /\ ~allPassed
    /\ pc = "optimize"
    /\ passHist[1] > passHist[5]
    /\ testResults.iter = 1
    /\ lastRepair # currentCode

\* C4: once debugAndRepair has answered with an empty or all-white-space
\* candidate the run is over and failed: nothing is in flight, no execution,
\* repair or optimization follows, whatever budget remains.
C4_EmptyRepairAborts ==
    (lastRepair # Undefined /\ Trim(lastRepair) = <<>>) =>
        /\ step = "failed"
        /\ pc = "done"
        /\ errorMessage = MsgEmptyRepair
        /\ executions = Len(passHist)
        /\ repairs = Len(passHist)
        /\ optimizations = 0

\* the first repair answered nothing, with four iterations left
C4_Witness ==
    /\ lastRepair = <<>>
    /\ step = "failed"
    /\ iterations = 1
    /\ repairs = 1

(***************************************************************************)
(* Properties of runPython, checked under SpecPy.                          *)
(***************************************************************************)
\* the child process was started
Spawned == call = "made" /\ child \in {"running", "ended"}

\* C5: a call whose child was started returns no later than the expiry of
\* the hard timer, for every order of 'exit', 'close' and the timer, and
\* when it returns the scratch file no longer exists.
C5_ReturnsByHardTimeout ==
    Spawned =>
        /\ clock > HARD_TIMEOUT => promise # NotSettled
        /\ promise # NotSettled => settledAt <= HARD_TIMEOUT /\ tempFile = "absent"

\* C6: on every exit path of the executor, once the call has returned an
\* outcome or has failed, the scratch file is gone.
C6_ScratchFileRemoved ==
    (promise # NotSettled \/ call = "crashed") => tempFile = "absent"

\* C7: the race between the end of the process and the hard timer has one
\* winner and the loser is cleaned up. The timer has fired or the 'exit' of
\* the process has cancelled it, never both. When the timer won, the child
\* was killed and the outcome is and stays the hard timeout, whatever the
\* later 'close' does; when the process won, the timer is cancelled and
\* never fires, the child is not killed, and 'close' alone settles.
C7_OneWinner ==
    /\ settledBy = "none" <=> promise = NotSettled
    /\ exitEmitted => timer \in {"cleared", "fired"}
    /\ settledBy = "timer" <=> timer = "fired"
    /\ timer = "fired" =>
          /\ promise = Rejected(MsgHardTimeout)
          /\ killed
          /\ child = "ended"
    /\ timer = "cleared" =>
          /\ promise # Rejected(MsgHardTimeout)
          /\ ~killed
          /\ settledBy \in {"none", "close"}
    /\ settledBy = "close" =>
          /\ timer = "cleared"
          /\ settleCalls = 1

\* the timer won, and the 'close' of the killed child came afterwards
C7_Witness ==
    /\ settledBy = "timer"
    /\ closeEmitted
    /\ settleCalls = 2
    /\ promise = Rejected(MsgHardTimeout)

\* C8: when the hard timer expires with the child still running, the child
\* and every process it started are terminated and the outcome is the hard
\* timeout.
C8_HardKillTerminatesAll ==
    cause = "hard kill" =>
        /\ child = "ended"
        /\ ~descendant
        /\ promise = Rejected(MsgHardTimeout)

\* C9: the 'close' handler classifies by exit status: 0 resolves with the
\* captured stdout; 137 and 9 reject with the memory message; 152 and 24
\* reject with the CPU message; every other status rejects with a message
\* that is none of the limit messages, the remapped stderr when there is one.
C9_ClassifiedByExitStatus ==
    settledBy = "close" =>
        /\ exitCode = 0 => promise = Resolved(output)
        /\ exitCode \in {137, 9} => promise = Rejected(MsgMemory)
        /\ exitCode \in {152, 24} => promise = Rejected(MsgCpu)
        /\ exitCode \notin {0, 137, 9, 152, 24} =>
              /\ promise.settled = "reject"
              /\ promise.value \notin {MsgMemory, MsgCpu, MsgHardTimeout}
              /\ error # <<>> => promise.value = AdjustError(error)
              /\ error = <<>> => promise.value = ExitedMessage(exitCode)

\* the child exited with the kill status 9 and was classified as memory
C9_Witness ==
    /\ settledBy = "close"
    /\ exitCode = 9
    /\ error # <<>>
    /\ promise = Rejected(MsgMemory)

\* C10: a child that ended because it went beyond the address-space limit,
\* by an exit status or by a signal, is classified as memory limit exceeded.
C10_MemoryClassified ==
    (cause = "memory" /\ settledBy = "close") => promise = Rejected(MsgMemory)

(***************************************************************************)
(* Properties of POST /api/execute, checked under SpecExec.                *)
(***************************************************************************)
\* C11: a request whose language is none of python, cpp and java is
\* answered with status 400 and nothing else happens: no outcome is pushed,
\* no runPython call is made, no scratch file is written and no process is
\* spawned.
C11_UnsupportedRejected ==
    (handler # "idle" /\ reqLanguage \notin {"python", "cpp", "java"}) =>
        /\ handler = "responded"
        /\ resSent = [status |-> 400, results |-> <<>>]
        /\ handlerResults = <<>>
        /\ runs = <<>>
        /\ call = "none"
        /\ tempFile = "absent"
        /\ child = "none"

C11_Witness ==
    /\ handler = "responded"
    /\ reqLanguage = "ruby"
    /\ Len(reqTestCases) = 2
    /\ resSent.status = 400

\* C12: in a python request the outcome of a vector has passed = TRUE
\* exactly when its runPython call was settled by the 'close' handler with
\* exit status 0 and the trimmed actual output equals the trimmed expected
\* output; an outcome of any other call has passed = FALSE.
C12_PassedIffSuccessAndEqual ==
    reqLanguage = "python" =>
        \A i \in 1..Len(handlerResults) :
            /\ i <= Len(runs)
            /\ handlerResults[i].passed <=>
                  /\ runs[i].by = "close"
                  /\ runs[i].status = 0
                  /\ Trim(handlerResults[i].actualOutput)
                        = Trim(reqTestCases[i].expectedOutput)

\* the candidate that echoes its input passes the vector whose expected
\* output is the trimmed input, next to a vector that a rejected call fails
C12_Witness ==
    /\ handler = "responded"
    /\ reqLanguage = "python"
    /\ reqTestCases = <<VectorB, VectorA>>
    /\ ~handlerResults[1].passed
    /\ runs[1].status # 0
    /\ handlerResults[2].passed
    /\ handlerResults[2].actualOutput = reqTestCases[2].input \o <<"\n">>
    /\ Trim(reqTestCases[2].input) = reqTestCases[2].expectedOutput

\* C13: the results of an accepted request are one outcome per test vector
\* in the order of the vectors: outcome i carries the input and the expected
\* output of vector i, while the loop runs and in the response.
C13_OneOutcomePerVector ==
    (handler # "idle" /\ reqLanguage \in {"python", "cpp", "java"}) =>
        /\ Len(handlerResults) = idx - 1
        /\ \A i \in 1..Len(handlerResults) :
              /\ handlerResults[i].input = reqTestCases[i].input
              /\ handlerResults[i].expectedOutput = reqTestCases[i].expectedOutput
        /\ handler = "responded" =>
              /\ resSent = [status |-> 200, results |-> handlerResults]
              /\ Len(resSent.results) = Len(reqTestCases)

C13_Witness ==
    /\ handler = "responded"
    /\ reqLanguage = "python"
    /\ reqTestCases = <<VectorB, VectorA>>
    /\ Len(resSent.results) = 2
    /\ runs[1].by = "timer"
    /\ runs[2].by = "close"

\* C14: no failure of a vector escapes the handler: a call of runPython
\* that fails gives a failed outcome that carries the message, and the
\* server goes on to the next vector and to the response.
C14_FailuresAbsorbed ==
    /\ call # "crashed"
    /\ reqLanguage = "python" =>
          \A i \in 1..Len(runs) :
              (runs[i].by # "close" \/ runs[i].status # 0) =>
                  /\ ~handlerResults[i].passed
                  /\ handlerResults[i].error # Undefined

(***************************************************************************)
(* Further properties of runAgent, checked under Spec.                     *)
(***************************************************************************)
\* C15 as stated: a run is in the failed state only when the language is
\* not supported or the repair collaborator returned an empty candidate.
C15_FailedOnlyForTwoReasons ==
    step = "failed" =>
        \/ language \notin {"python", "cpp", "java"}
        \/ errorMessage = MsgEmptyRepair

\* C15: a run is in the failed state only when an awaited call of runAgent
\* threw or when the repair collaborator returned an empty or all-white
\* candidate; the run is then over, and neither failed outcomes nor the
\* exhausted budget put it there.
C15_FailedOnlyByThrowOrEmptyRepair ==
    step = "failed" =>
        /\ pc = "done"
        /\ \/ errorMessage = MsgCollaborator
           \/ /\ errorMessage = MsgEmptyRepair
              /\ repairs > 0
              /\ Trim(lastRepair) = <<>>

C15_Witness ==
    /\ step = "failed"
    /\ errorMessage = MsgCollaborator
    /\ Len(passHist) = 2
    /\ failed # <<>>

\* C16: a run that is over is in exactly one of three outcomes: completed
\* with every shown outcome passed, completed with fewer shown outcomes
\* passed than there are, or failed with a reason; and a run whose budget
\* is exhausted without full success is completed, with the best candidate
\* and its results.
C16_TerminalOutcomes ==
    pc = "done" =>
        LET total == Len(testResults.list)
            passedShown == PassedCount(testResults.list)
            success == step = "completed" /\ passedShown = total
            bestEffort == step = "completed" /\ passedShown < total
            abort == step = "failed" /\ errorMessage # NoMessage
            exhausted == Len(passHist) = MAX_ITERATIONS /\ ~allPassed
        IN  /\ success \/ bestEffort \/ abort
            /\ ~(success /\ bestEffort)
            /\ ~(success /\ abort)
            /\ ~(bestEffort /\ abort)
            /\ success => allPassed
            /\ bestEffort => exhausted
            /\ exhausted =>
                  /\ step = "completed"
                  /\ currentCode = bestCode
                  /\ testResults = bestTestResults

\* C17: optimizeCode is called at most once in a run, and only when the
\* loop has ended (all passed, or MAX_ITERATIONS executions made); when the
\* call throws, the shown code and the shown results are still those of the
\* verified candidate.
C17_OptimizerOnceAfterLoop ==
    /\ optimizations <= 1
    /\ pc = "optimize" => optimizations = 1
    /\ optimizations = 1 =>
          /\ pc \in {"optimize", "done"}
          /\ allPassed \/ Len(passHist) = MAX_ITERATIONS
    /\ (optimizations = 1 /\ step = "failed") =>
          /\ code = currentCode
          /\ testResults.forCode = code
          /\ ~allPassed => code = bestCode /\ testResults = bestTestResults
          /\ allPassed => testResults.iter = Len(passHist)

C17_Witness ==
    /\ optimizations = 1
    /\ step = "failed"
    /\ ~allPassed
    /\ bestTestResults.iter = 2
    /\ maxPassedCount > 0

\* C18: the test vectors are the generated ones, with the user's vector in
\* front when both sample fields are non-blank, and every execution was
\* sent that same list.
C18_SameTestSetEveryExecution ==
    /\ Len(sentTests) = executions
    /\ \A i \in 1..Len(sentTests) : sentTests[i] = allTests
    /\ executions > 0 =>
          /\ Len(allTests) <= Len(generatedTests) + 1
          /\ allTests =
                (IF Trim(sampleInput) # <<>> /\ Trim(sampleOutput) # <<>>
                 THEN <<[input |-> Trim(sampleInput),
                         expectedOutput |-> Trim(sampleOutput)]>>
                 ELSE <<>>) \o generatedTests

C18_Witness ==
    /\ executions = 3
    /\ Len(allTests) = Len(generatedTests) + 1
    /\ generatedTests # <<>>
    /\ sentTests[3][1] = [input |-> <<"b">>, expectedOutput |-> <<"b">>]

\* what C19 says of a state
BestStateConsistent ==
    /\ passHist = <<>> => maxPassedCount = -1
    /\ passHist # <<>> =>
          /\ maxPassedCount = PassedCount(bestTestResults.list)
          /\ maxPassedCount = MaxOf(passHist)
          /\ bestTestResults.forCode = bestCode
          /\ bestTestResults.iter \in 1..Len(passHist)
          /\ Len(bestTestResults.list) = Len(allTests)
          /\ maxPassedCount <= Len(allTests)

\* C19: maxPassedCount is -1 until the first execution has answered; from
\* then on it is the number of passed outcomes in bestTestResults, which
\* are the results of executing bestCode; it is at most the number of test
\* vectors, and no step of the run makes it smaller.
C19_MaxPassedCountMonotone ==
    /\ []BestStateConsistent
    /\ [][maxPassedCount' >= maxPassedCount]_vars

C19_Witness ==
    /\ Len(passHist) = 3
    /\ passHist[1] < maxPassedCount
    /\ passHist[3] < maxPassedCount

\* C20: an execution is awaited in step testing only, in every iteration,
\* and the step is debugging only while debugAndRepair is awaited.
C20_StepFollowsStateMachine ==
    /\ pc = "fetch" => step = "testing"
    /\ step = "debugging" => pc = "repair"

\* C21: every iteration before the last answered one had a failed outcome;
\* once an execution has no failed outcome the loop is left for the
\* optimizing step: no further execution is made and debugAndRepair is not
\* called for that iteration, whatever is left of the budget.
C21_StopsAtFirstAllPassed ==
    /\ \A i \in 1..(Len(passHist) - 1) : passHist[i] < Len(allTests)
    /\ (passHist # <<>> /\ passHist[Len(passHist)] = Len(allTests)) => allPassed
    /\ allPassed =>
          /\ pc \in {"optimize", "done"}
          /\ step \in {"optimizing", "completed", "failed"}
          /\ passHist[Len(passHist)] = Len(allTests)
          /\ executions = Len(passHist)
          /\ testResults.iter = Len(passHist)
          /\ repairs = Len(passHist) - 1
          /\ repairCall.iter < Len(passHist)
          /\ step = "failed" => optimizations = 1

C21_Witness ==
    /\ allPassed
    /\ step = "completed"
    /\ Len(passHist) = 2
    /\ Len(allTests) = 2
    /\ executions = 2
    /\ repairs = 1

\* C22: debugAndRepair was called once for every answered iteration that
\* had a failed outcome and was not the MAX_ITERATIONS-th, so at most
\* MAX_ITERATIONS - 1 times; the call in flight was given the code just
\* executed and the failed outcomes of that execution; the code of the
\* next execution is the answer of the call.
C22_RepairExactlyOnFailure ==
    /\ repairs = Cardinality({i \in 1..Len(passHist) :
                                 passHist[i] < Len(allTests) /\ i < MAX_ITERATIONS})
    /\ repairs <= MAX_ITERATIONS - 1
    /\ (repairs = 0) = (repairCall = NoCall)
    /\ pc = "repair" =>
          /\ iterations < MAX_ITERATIONS
          /\ repairCall.iter = iterations
          /\ testResults.iter = iterations
          /\ repairCall.code = currentCode
          /\ repairCall.code = testResults.forCode
          /\ repairCall.failedTests = FailedOf(testResults.list)
          /\ repairCall.failedTests # <<>>
          /\ iterations > 1 => testResults.forCode = lastRepair
    /\ (pc = "fetch" /\ iterations > 1) =>
          /\ repairCall.iter = iterations - 1
          /\ currentCode = lastRepair

C22_Witness ==
    /\ pc = "fetch"
    /\ iterations = MAX_ITERATIONS
    /\ repairs = MAX_ITERATIONS - 1
    /\ Len(repairCall.failedTests) = 1
    /\ Len(allTests) = 2

\* C26: when the run is completed, the shown results are the outcomes of
\* an execution of the shown code against the test vectors.
C26_ResultsOfShownCode ==
    step = "completed" =>
        /\ testResults.iter \in 1..Len(passHist)
        /\ Len(testResults.list) = Len(allTests)
        /\ testResults.forCode = code

\* C28: when the loop has ended with allPassed, the stored best candidate
\* is the candidate executed last, the stored best results are the results
\* of that execution, and maxPassedCount is the number of test vectors.
C28_BestIsLastOnSuccess ==
    allPassed =>
        /\ bestCode = currentCode
        /\ bestTestResults = testResults
        /\ bestTestResults.iter = Len(passHist)
        /\ bestTestResults.forCode = currentCode
        /\ maxPassedCount = Len(allTests)

C28_Witness ==
    /\ allPassed
    /\ passHist = <<1, 1, 2>>
    /\ bestTestResults.iter = 3
    /\ bestCode = lastRepair

\* C29: with no test vector the first execution has no failed outcome: the
\* loop ends after that one execution with allPassed, maxPassedCount = 0
\* and no call of debugAndRepair, and the run goes to the optimizing step.
C29_EmptyTestSetPasses ==
    (allTests = <<>> /\ passHist # <<>>) =>
        /\ passHist = <<0>>
        /\ allPassed
        /\ executions = 1
        /\ repairs = 0
        /\ maxPassedCount = 0
        /\ testResults.list = <<>>
        /\ bestCode = currentCode
        /\ pc \in {"optimize", "done"}
        /\ step \in {"optimizing", "completed", "failed"}
        /\ step = "failed" => optimizations = 1

C29_Witness ==
    /\ step = "completed"
    /\ allTests = <<>>
    /\ language = "python"
    /\ currentCode = <<>>
    /\ executions = 1
    /\ maxPassedCount = 0

(***************************************************************************)
(* Properties of the run and of the request, checked under SpecBoth.       *)
(***************************************************************************)
\* C23: an execution is in flight only when every earlier one was answered
\* with one outcome per vector; the pass counts, the best candidate and
\* the repair calls come from answered iterations only, never from the
\* one in flight; and the server sends a response only when the loop has
\* given every vector its outcome, one runPython call at a time.
C23_IterationsStrictlyOrdered ==
    /\ Len(passHist) <= executions
    /\ executions <= Len(passHist) + 1
    /\ pc = "fetch" =>
          /\ executions = Len(passHist) + 1
          /\ iterations = executions
          /\ testResults.iter < iterations
          /\ bestTestResults.iter < iterations
          /\ repairCall.iter < iterations
          /\ repairs < iterations
    /\ executions = Len(passHist) + 1 => pc \in {"fetch", "done"}
    /\ passHist # <<>> =>
          /\ Len(testResults.list) = Len(allTests)
          /\ Len(bestTestResults.list) = Len(allTests)
          /\ testResults.iter <= Len(passHist)
          /\ repairCall.iter <= Len(passHist)
    /\ handler = "await" =>
          /\ resSent = NoResponse
          /\ idx <= Len(reqTestCases)
          /\ Len(handlerResults) = idx - 1
          /\ Len(runs) = idx - 1
    /\ (handler = "responded" /\ resSent.status = 200) =>
          Len(resSent.results) = Len(reqTestCases)

C23_Witness ==
    /\ pc = "fetch"
    /\ iterations = 3
    /\ Len(allTests) = 2
    /\ passHist = <<1, 0>>
    /\ bestTestResults.iter = 1
    /\ repairCall.iter = 2

(***************************************************************************)
(* Properties of the remapping of line numbers, checked under SpecRemap.   *)
(***************************************************************************)
\* the line the claim reports line n of the wrapped file as
Reported(n) == IF n >= 28 THEN n - 27 ELSE n

\* C24: the message of a runtime error is the traceback with every line
\* number n >= 28 replaced by n - 27 and every n < 28 left as it is, other
\* numbers untouched; line k of the user's code, which is line
\* PREAMBLE_LINES + k of the wrapped file, is reported as line k >= 1.
C24_LinesRemapped ==
    /\ closeEmitted =>
          /\ promise.settled = "reject"
          /\ \A n \in 0..MaxLine :
                /\ error = Frame(n) => promise.value = Frame(Reported(n))
                /\ \A m \in 0..MaxLine :
                      error = Frame(m) \o Frame(n) =>
                          promise.value = Frame(Reported(m)) \o Frame(Reported(n))
    /\ \A k \in 1..(MaxLine - PREAMBLE_LINES) :
          /\ Reported(PREAMBLE_LINES + k) = k
          /\ AdjustError(Frame(PREAMBLE_LINES + k)) = Frame(k)
    /\ \A n \in 0..PREAMBLE_LINES : AdjustError(Frame(n)) = Frame(n)

C24_Witness ==
    /\ closeEmitted
    /\ error = Frame(2) \o Frame(PREAMBLE_LINES + 1)
    /\ promise = Rejected(Frame(2) \o Frame(1))

(***************************************************************************)
(* Properties of concurrent calls of runPython, checked under SpecDir.     *)
(***************************************************************************)
\* C25: two calls in flight never have the same temp file name, and the
\* temp file of a running call exists until the call's own cleanup.
C25_ScratchNamesUnique ==
    /\ \A e, f \in Runs :
          (e # f /\ runState[e] = "running" /\ runState[f] = "running") =>
              runName[e] # runName[f]
    /\ \A e \in Runs : runState[e] = "running" => runName[e] \in scratchDir

\* C27: a cpp or java request makes no runPython call, writes no file and
\* spawns no process, and its response has for every vector passed = TRUE
\* and the expected output as actual output; a cpp or java run makes at
\* most one execution and no repair, the answer of its execution is all
\* passed whatever the candidate is, and when it completes it has made
\* exactly one execution.
C27_MockAlwaysPasses ==
    /\ reqLanguage \in {"cpp", "java"} =>
          /\ handler \in {"responded"}
          /\ resSent.status = 200
          /\ Len(resSent.results) = Len(reqTestCases)
          /\ \A i \in 1..Len(resSent.results) :
                /\ resSent.results[i].passed
                /\ resSent.results[i].actualOutput = reqTestCases[i].expectedOutput
          /\ runs = <<>>
          /\ call = "none"
          /\ child = "none"
          /\ tempFile = "absent"
    /\ language \in {"cpp", "java"} =>
          /\ executions <= 1
          /\ repairs = 0
          /\ passHist # <<>> =>
                /\ passHist = <<Len(allTests)>>
                /\ allPassed
                /\ pc \in {"optimize", "done"}
                /\ \A i \in 1..Len(allTests) :
                      /\ testResults.list[i].passed
                      /\ testResults.list[i].actualOutput = allTests[i].expectedOutput
          /\ step = "completed" => executions = 1 /\ allPassed

C27_Witness ==
    /\ language = "java"
    /\ step = "completed"
    /\ currentCode = <<>>
    /\ Len(allTests) = 2
    /\ executions = 1
    /\ repairs = 0

(***************************************************************************)
(* Termination, checked under FairBoth.                                    *)
(***************************************************************************)
\* for the call the handler awaits, the child closes or the hard timer
\* fires
ClosesOrTimesOut ==
    [](handler = "await" /\ call = "made" => <>(closeEmitted \/ timer = "fired"))

\* C30: a run that was started reaches the end of runAgent, with step
\* completed or failed, when every awaited call returns; and a request that
\* awaits a vector is responded to when, for every vector, the child
\* closes or the hard timer fires.
C30_Terminates ==
    /\ (pc \notin {"idle", "done"}) ~> (pc = "done" /\ step \in {"completed", "failed"})
    /\ ClosesOrTimesOut => ((handler = "await") ~> (handler = "responded"))

C30_Witness ==
    /\ pc = "done"
    /\ step = "completed"
    /\ Len(passHist) = MAX_ITERATIONS
    /\ repairs = MAX_ITERATIONS - 1

====
